---- MODULE Spec2Model ----
(***************************************************************************)
(* A model of elf-limits (src/src/main.rs): reading the loadable segments  *)
(* and the .stack/.heap sections of an ELF file, summing them into a       *)
(* SizeSummary, evaluating the summary against optional limits, parsing    *)
(* the limit strings and the batch loop of main.                           *)
(*                                                                         *)
(* Numbers.  The program computes on u64 and f64.  TLC's integers are 32   *)
(* bits wide, so a natural number is modelled as the little-endian         *)
(* sequence of its base-256 digits without leading zero digits (zero is    *)
(* the empty sequence); a u64 is such a number below 2^64.  Every unsigned *)
(* operation of the source is modelled with its width: the exact result is *)
(* computed first and then either reduced modulo 2^64 (a build without     *)
(* overflow checks) or turned into a panic (a build with them).            *)
(*                                                                         *)
(* Style.  A value that is used more than once is the parameter of an      *)
(* operator rather than a LET definition: TLC evaluates a parameter once.  *)
(***************************************************************************)
EXTENDS Integers, Sequences, FiniteSets, TLC

\* ------------------------------------------------------------------------
\* Natural numbers as digit sequences
\* ------------------------------------------------------------------------

\* The digit base, 2^8: eight digits make a u64.
Base == 2 ^ 8

\* The width of u64 in bits.
U64Bits == 64

\* e, with v evaluated first.  TLC hands the arguments of an operator on
\* unevaluated; a loop that only passes a value along would build a chain of
\* pending values as long as the loop.
Now(v, e) == IF v = v THEN e ELSE e

RECURSIVE Norm(_)
\* s without its leading (most significant, last) zero digits.
Norm(s) ==
  IF s = <<>> THEN <<>>
  ELSE IF s[Len(s)] = 0 THEN Norm(SubSeq(s, 1, Len(s) - 1))
  ELSE s

RECURSIVE Nat2Big(_)
\* The digit sequence of a small natural number.
Nat2Big(n) == IF n = 0 THEN <<>> ELSE <<n % Base>> \o Nat2Big(n \div Base)

HeadOr0(a) == IF a = <<>> THEN 0 ELSE Head(a)
TailOrEmpty(a) == IF a = <<>> THEN <<>> ELSE Tail(a)

RECURSIVE AddC(_, _, _)
\* a + b + c, c the carry.
AddC(a, b, c) ==
  IF a = <<>> /\ b = <<>> THEN (IF c = 0 THEN <<>> ELSE <<c>>)
  ELSE <<(HeadOr0(a) + HeadOr0(b) + c) % Base>>
         \o AddC(TailOrEmpty(a), TailOrEmpty(b),
                 (HeadOr0(a) + HeadOr0(b) + c) \div Base)

BigAdd(a, b) == AddC(a, b, 0)

RECURSIVE CmpFrom(_, _, _)
\* Compares equally long a and b from digit i downwards: -1, 0 or 1.
CmpFrom(a, b, i) ==
  IF i = 0 THEN 0
  ELSE IF a[i] < b[i] THEN -1
  ELSE IF a[i] > b[i] THEN 1
  ELSE CmpFrom(a, b, i - 1)

BigCmp(a, b) ==
  IF Len(a) < Len(b) THEN -1
  ELSE IF Len(a) > Len(b) THEN 1
  ELSE CmpFrom(a, b, Len(a))

BigLt(a, b) == BigCmp(a, b) < 0
BigLe(a, b) == BigCmp(a, b) <= 0

RECURSIVE SubB(_, _, _)
\* The digits of a - b - c, c the borrow.
SubB(a, b, c) ==
  IF a = <<>> THEN <<>>
  ELSE <<(Head(a) - HeadOr0(b) - c + Base) % Base>>
         \o SubB(Tail(a), TailOrEmpty(b),
                 IF Head(a) - HeadOr0(b) - c < 0 THEN 1 ELSE 0)

\* a - b for a >= b.
BigSub(a, b) == Norm(SubB(a, b, 0))

RECURSIVE MulC(_, _, _)
MulC(a, k, c) ==
  IF a = <<>> THEN Nat2Big(c)
  ELSE <<(Head(a) * k + c) % Base>> \o MulC(Tail(a), k, (Head(a) * k + c) \div Base)

\* a * k for a small natural number k.
BigMulSmall(a, k) == IF k = 0 THEN <<>> ELSE MulC(a, k, 0)

\* a * Base^n.
ShiftDigits(a, n) == IF a = <<>> THEN <<>> ELSE [i \in 1..n |-> 0] \o a

RECURSIVE BigMul(_, _)
BigMul(a, b) ==
  IF b = <<>> THEN <<>>
  ELSE BigAdd(BigMulSmall(a, Head(b)), ShiftDigits(BigMul(a, Tail(b)), 1))

\* a * 2^n.
BigShl(a, n) == ShiftDigits(BigMulSmall(a, 2 ^ (n % 8)), n \div 8)

RECURSIVE DivC(_, _, _, _)
\* The digits of a \div k from digit i downwards, r the remainder so far.
DivC(a, k, i, r) ==
  IF i = 0 THEN <<>>
  ELSE DivC(a, k, i - 1, (r * Base + a[i]) % k) \o <<(r * Base + a[i]) \div k>>

\* a \div k for a small positive k.
BigDivSmall(a, k) == Norm(DivC(a, k, Len(a), 0))

\* a \div 2^n.
BigShr(a, n) ==
  IF n \div 8 >= Len(a) THEN <<>>
  ELSE BigDivSmall(SubSeq(a, n \div 8 + 1, Len(a)), 2 ^ (n % 8))

\* a modulo 2^n.
BigLow(a, n) == BigSub(a, BigShl(BigShr(a, n), n))

RECURSIVE DigitBits(_)
DigitBits(d) == IF d = 0 THEN 0 ELSE 1 + DigitBits(d \div 2)

\* The number of bits of a: the least n with a < 2^n.
BitLen(a) == IF a = <<>> THEN 0 ELSE 8 * (Len(a) - 1) + DigitBits(a[Len(a)])

BigIsOdd(a) == a # <<>> /\ a[1] % 2 = 1

RECURSIVE DivStep(_, _, _, _)
RECURSIVE DivStepAt(_, _, _, _, _)
\* Bitwise long division: the quotient digit q of r by b, from bit i downwards.
DivStep(r, b, i, q) ==
  IF i < 0 \/ BigLt(r, b) THEN [q |-> q, r |-> r]
  ELSE DivStepAt(r, b, i, q, BigShl(b, i))

\* The step at bit i, t = b * 2^i.
DivStepAt(r, b, i, q, t) ==
  IF BigLe(t, r) THEN DivStep(BigSub(r, t), b, i - 1, q + 2 ^ i)
  ELSE DivStep(r, b, i - 1, q)

RECURSIVE DivDigits(_, _, _, _, _)
RECURSIVE DivDigitsNext(_, _, _, _, _)
\* Long division of a by b from digit i of a downwards; r is the remainder and
\* q the quotient digits so far.
DivDigits(a, b, i, r, q) ==
  IF i = 0 THEN [q |-> Norm(q), r |-> r]
  ELSE DivDigitsNext(a, b, i, q,
         DivStep(BigAdd(ShiftDigits(r, 1), Nat2Big(a[i])), b, 7, 0))

\* After digit i, d its quotient digit and remainder.
DivDigitsNext(a, b, i, q, d) ==
  Now(d, DivDigits(a, b, i - 1, d.r, <<d.q>> \o q))

\* Quotient and remainder of a by b > 0.
BigDivMod(a, b) == DivDigits(a, b, Len(a), <<>>, <<>>)

\* 2^64, and the largest u64.
TwoTo64 == BigShl(<<1>>, U64Bits)
U64_MAX == BigSub(TwoTo64, <<1>>)

\* The value an unsigned 64-bit register keeps of the exact result a.
Wrap64(a) == BigLow(a, U64Bits)

\* ------------------------------------------------------------------------
\* f64: IEEE 754 binary64, the non-negative values
\* ------------------------------------------------------------------------

\* The precision of f64: 53 significant bits.
F64Precision == 53

\* A finite non-zero f64 is m * 2^e with 2^52 <= m < 2^53.
F64Finite(m, e) == [kind |-> "finite", m |-> m, e |-> e]
F64Zero == [kind |-> "zero", m |-> <<>>, e |-> 0]
F64Inf  == [kind |-> "inf", m |-> <<>>, e |-> 0]
F64NaN  == [kind |-> "nan", m |-> <<>>, e |-> 0]

\* m1 * 2^e, m1 <= 2^53: a carry out of the rounding takes one more bit.
F64Carry(m1, e) ==
  IF BitLen(m1) > F64Precision THEN F64Finite(BigShr(m1, 1), e + 1)
  ELSE F64Finite(m1, e)

\* Round to nearest, ties to even: m0 the kept bits, c the comparison of the
\* dropped bits with one half, sticky whether anything lies below them.
F64RoundsUp(m0, c, sticky) == c > 0 \/ (c = 0 /\ (sticky \/ BigIsOdd(m0)))

F64Rounded(m0, c, sticky, e) ==
  F64Carry(IF F64RoundsUp(m0, c, sticky) THEN BigAdd(m0, <<1>>) ELSE m0, e)

\* n * 2^e to 53 bits, s the number of bits to drop.
F64RoundShift(n, sticky, e, s) ==
  IF s <= 0 THEN F64Finite(BigShl(n, -s), e + s)
  ELSE F64Rounded(BigShr(n, s), BigCmp(BigLow(n, s), BigShl(<<1>>, s - 1)),
                  sticky, e + s)

\* The f64 nearest to n * 2^e, n > 0; sticky says that the exact value lies
\* strictly between n * 2^e and (n + 1) * 2^e.
RoundF64(n, sticky, e) == F64RoundShift(n, sticky, e, BitLen(n) - F64Precision)

\* `v as f64` for a u64 v.
U64ToF64(v) == IF v = <<>> THEN F64Zero ELSE RoundF64(v, FALSE, 0)

\* The quotient d.q with remainder d.r of the scaled mantissas, rounded.
F64Quotient(d, e) == RoundF64(d.q, d.r # <<>>, e)

\* a / b.
F64Div(a, b) ==
  IF a.kind = "nan" \/ b.kind = "nan" THEN F64NaN
  ELSE IF a.kind = "zero" /\ b.kind = "zero" THEN F64NaN
  ELSE IF a.kind = "inf" /\ b.kind = "inf" THEN F64NaN
  ELSE IF a.kind = "inf" \/ b.kind = "zero" THEN F64Inf
  ELSE IF a.kind = "zero" \/ b.kind = "inf" THEN F64Zero
  ELSE F64Quotient(BigDivMod(BigShl(a.m, F64Precision + 2), b.m),
                   a.e - b.e - (F64Precision + 2))

\* a * b.
F64Mul(a, b) ==
  IF a.kind = "nan" \/ b.kind = "nan" THEN F64NaN
  ELSE IF (a.kind = "zero" /\ b.kind = "inf") \/ (a.kind = "inf" /\ b.kind = "zero")
       THEN F64NaN
  ELSE IF a.kind = "inf" \/ b.kind = "inf" THEN F64Inf
  ELSE IF a.kind = "zero" \/ b.kind = "zero" THEN F64Zero
  ELSE RoundF64(BigMul(a.m, b.m), FALSE, a.e + b.e)

\* `a as u64`: truncation toward zero, saturating; NaN becomes 0.
F64ToU64(a) ==
  IF a.kind = "nan" \/ a.kind = "zero" THEN <<>>
  ELSE IF a.kind = "inf" THEN U64_MAX
  ELSE IF a.e >= 0
       THEN (IF BitLen(a.m) + a.e > U64Bits THEN U64_MAX ELSE BigShl(a.m, a.e))
  ELSE BigShr(a.m, -a.e)

\* The literal 100.0.
F64Hundred == RoundF64(Nat2Big(100), FALSE, 0)

\* percent (main.rs:122): ((val as f64 / of as f64) * 100.0) as u64.
percent(val, of) ==
  F64ToU64(F64Mul(F64Div(U64ToF64(val), U64ToF64(of)), F64Hundred))

\* ------------------------------------------------------------------------
\* Results, and the u64 arithmetic of the source: `+`, `-`, `*`
\* ------------------------------------------------------------------------

\* The outcome of an operation: Ok(v), Err(e) (a Result the caller handles) or
\* Panic(e) (the thread unwinds; main ends with it).
Ok(v)    == [tag |-> "Ok", val |-> v, err |-> <<>>]
Err(e)   == [tag |-> "Err", val |-> <<>>, err |-> e]
Panic(e) == [tag |-> "Panic", val |-> <<>>, err |-> <<e>>]

\* Option<T>.
Some(v) == [some |-> TRUE, val |-> v]
None    == [some |-> FALSE, val |-> <<>>]

\* r, and F of its value when r is Ok: the `?` of the source, and the
\* propagation of a panic out of a nested call.
AndThen(r, F(_)) == IF r.tag = "Ok" THEN F(r.val) ELSE r

\* An arithmetic overflow panics in a build with overflow checks (the debug
\* profile) and wraps modulo 2^64 in a build without them (the release profile).
Overflowed(wrapped, checks, what) ==
  IF checks THEN Panic(what) ELSE Ok(wrapped)

\* The u64 the operation keeps of the exact, non-negative result.
U64Result(exact, checks, what) ==
  IF BigLt(exact, TwoTo64) THEN Ok(exact)
  ELSE Overflowed(Wrap64(exact), checks, what)

u64_add(a, b, checks) ==
  U64Result(BigAdd(a, b), checks, "attempt to add with overflow")

u64_sub(a, b, checks) ==
  IF BigLe(b, a) THEN Ok(BigSub(a, b))
  ELSE Overflowed(BigSub(BigAdd(a, TwoTo64), b), checks,
                  "attempt to subtract with overflow")

u64_mul(a, b, checks) ==
  U64Result(BigMul(a, b), checks, "attempt to multiply with overflow")

\* ------------------------------------------------------------------------
\* Strings: sequences of characters
\* ------------------------------------------------------------------------

AsciiDigits == <<"0", "1", "2", "3", "4", "5", "6", "7", "8", "9">>
AsciiUpper  == <<"A", "B", "C", "D", "E", "F", "G", "H", "I", "J", "K", "L", "M",
                 "N", "O", "P", "Q", "R", "S", "T", "U", "V", "W", "X", "Y", "Z">>
AsciiLower  == <<"a", "b", "c", "d", "e", "f", "g", "h", "i", "j", "k", "l", "m",
                 "n", "o", "p", "q", "r", "s", "t", "u", "v", "w", "x", "y", "z">>

\* Characters outside ASCII are named by their code point: ARABIC-INDIC DIGIT
\* THREE (a decimal digit, category Nd) and VULGAR FRACTION ONE HALF (No).
NonAsciiNumeric == {"U+0663", "U+00BD"}

IsAsciiDigit(c) == \E i \in 1..Len(AsciiDigits) : AsciiDigits[i] = c
DigitValue(c)   == (CHOOSE i \in 1..Len(AsciiDigits) : AsciiDigits[i] = c) - 1

\* char::is_numeric: the Unicode categories Nd, Nl and No.
IsNumeric(c) == IsAsciiDigit(c) \/ c \in NonAsciiNumeric

\* char::is_whitespace, on the white space the model's inputs hold.
IsWhitespace(c) == c \in {" ", "\t"}

ToAsciiLowercaseChar(c) ==
  IF \E i \in 1..Len(AsciiUpper) : AsciiUpper[i] = c
  THEN AsciiLower[CHOOSE i \in 1..Len(AsciiUpper) : AsciiUpper[i] = c]
  ELSE c

\* str::to_ascii_lowercase.
to_ascii_lowercase(s) == [i \in 1..Len(s) |-> ToAsciiLowercaseChar(s[i])]

\* The least and the greatest member of a non-empty set of numbers.
MinOf(S) == CHOOSE i \in S : \A j \in S : i <= j
MaxOf(S) == CHOOSE i \in S : \A j \in S : j <= i

\* s from the first to the last of the positions keep.
Between(s, keep) == IF keep = {} THEN <<>> ELSE SubSeq(s, MinOf(keep), MaxOf(keep))

\* str::trim: without the leading and the trailing white space.
trim(s) == Between(s, {i \in 1..Len(s) : ~IsWhitespace(s[i])})

EndsWith(s, suffix) ==
  /\ Len(suffix) <= Len(s)
  /\ SubSeq(s, Len(s) - Len(suffix) + 1, Len(s)) = suffix

\* str::strip_suffix.
strip_suffix(s, suffix) ==
  IF EndsWith(s, suffix) THEN Some(SubSeq(s, 1, Len(s) - Len(suffix))) ELSE None

RECURSIVE FromDigits(_, _, _)
RECURSIVE PushDigit(_, _, _)
\* The digit loop of u64::from_str: digit i of s onto acc, checked.
FromDigits(s, i, acc) ==
  IF i > Len(s) THEN Ok(acc)
  ELSE IF ~IsAsciiDigit(s[i]) THEN Err(<<"invalid digit found in string">>)
  ELSE PushDigit(s, i, BigAdd(BigMulSmall(acc, 10), Nat2Big(DigitValue(s[i]))))

\* acc * 10 + digit, when it fits.
PushDigit(s, i, next) ==
  IF BigLt(next, TwoTo64) THEN FromDigits(s, i + 1, next)
  ELSE Err(<<"number too large to fit in target type">>)

\* str::parse::<u64> (main.rs:356): an optional '+', then ASCII digits.
parse_u64(s) ==
  IF s = <<>> THEN Err(<<"cannot parse integer from empty string">>)
  ELSE IF Len(s) = 1 /\ s[1] \in {"+", "-"} THEN Err(<<"invalid digit found in string">>)
  ELSE IF s[1] = "+" THEN FromDigits(s, 2, <<>>)
  ELSE FromDigits(s, 1, <<>>)

\* ------------------------------------------------------------------------
\* parse_limit (main.rs:319)
\* ------------------------------------------------------------------------

\* The suffixes in the order the if/else chain tries them, each with its
\* unit_value: 1000^n or 1024^n for n = 1..4 in digits of base 256, or 1.
UnitSuffixes ==
  << [suffix |-> <<"t", "b">>,      unit_value |-> <<0, 16, 165, 212, 232>>],
     [suffix |-> <<"t", "i", "b">>, unit_value |-> <<0, 0, 0, 0, 0, 1>>],
     [suffix |-> <<"t">>,           unit_value |-> <<0, 0, 0, 0, 0, 1>>],
     [suffix |-> <<"g", "b">>,      unit_value |-> <<0, 202, 154, 59>>],
     [suffix |-> <<"g", "i", "b">>, unit_value |-> <<0, 0, 0, 64>>],
     [suffix |-> <<"g">>,           unit_value |-> <<0, 0, 0, 64>>],
     [suffix |-> <<"m", "b">>,      unit_value |-> <<64, 66, 15>>],
     [suffix |-> <<"m", "i", "b">>, unit_value |-> <<0, 0, 16>>],
     [suffix |-> <<"m">>,           unit_value |-> <<0, 0, 16>>],
     [suffix |-> <<"k", "b">>,      unit_value |-> <<232, 3>>],
     [suffix |-> <<"k", "i", "b">>, unit_value |-> <<0, 4>>],
     [suffix |-> <<"k">>,           unit_value |-> <<0, 4>>],
     [suffix |-> <<"b">>,           unit_value |-> <<1>>] >>

GrammarHint == "limit must be a number followed by an optional SI unit (GiB, KB, etc)"

\* main.rs:357-361: num * unit_value, or the error of the parse.
LimitValue(num, unit_value, checks) ==
  IF num.tag = "Ok" THEN u64_mul(num.val, unit_value, checks)
  ELSE Err(<<GrammarHint>> \o num.err)

\* The final match of parse_limit: num_part.parse::<u64>() and num * unit_value.
parse_limit_value(num_part, unit_value, checks) ==
  LimitValue(parse_u64(num_part), unit_value, checks)

\* The branch of the first suffix that s ends with.
WithSuffix(s, unit, checks) ==
  parse_limit_value(trim(strip_suffix(s, unit.suffix).val), unit.unit_value, checks)

\* The final else: a number without a unit.
WithoutSuffix(num, checks) ==
  IF \A i \in 1..Len(num) : IsNumeric(num[i])
  THEN parse_limit_value(num, <<1>>, checks)
  ELSE Err(<<GrammarHint>>)

\* The if/else chain over the lowercased text; hits are the suffixes s ends with.
MatchSuffix(s, hits, checks) ==
  IF hits # {} THEN WithSuffix(s, UnitSuffixes[MinOf(hits)], checks)
  ELSE WithoutSuffix(trim(s), checks)

SuffixHits(s) == {i \in 1..Len(UnitSuffixes) : EndsWith(s, UnitSuffixes[i].suffix)}

ParseLowercase(s, checks) == MatchSuffix(s, SuffixHits(s), checks)

parse_limit(text, checks) == ParseLowercase(to_ascii_lowercase(text), checks)

\* ------------------------------------------------------------------------
\* read_elf_file (main.rs:131) and size_summary (main.rs:187)
\* ------------------------------------------------------------------------

\* The permission bits of a program header (object::elf).
PF_X == 1
PF_W == 2
PF_R == 4

\* The bits are distinct powers of two, so `|` on them is a sum.
TEXT_FLAGS   == PF_X + PF_R
DATA_FLAGS   == PF_R + PF_W
RODATA_FLAGS == PF_R

\* What the decoder (the object crate) shows of a file: whether
\* object::File::parse accepts it, its segments, each with flags() (ELF p_flags,
\* or the flags of another container format), size() (the size in memory) and
\* data() (the bytes in the file: Ok(their number) or an error), and its
\* sections, each with name() (Ok(name) or an error) and size().

\* A faulty match: a test of the execute bit in place of the equality with
\* TEXT_FLAGS, so that every executable segment is text.
SegmentTypeOfExecuteBit(flags) ==
  IF flags.kind # "Elf" THEN None
  ELSE IF (flags.p_flags \div PF_X) % 2 = 1 THEN Some("Text")
  ELSE IF flags.p_flags = DATA_FLAGS THEN Some("Data")
  ELSE IF flags.p_flags = RODATA_FLAGS THEN Some("RoData")
  ELSE None

\* The match on p_flags: the segment's type, or None for `continue`.
SegmentTypeOf(flags) ==
  IF flags.kind # "Elf" THEN None
  ELSE IF flags.p_flags = TEXT_FLAGS THEN Some("Text")
  ELSE IF flags.p_flags = DATA_FLAGS THEN Some("Data")
  ELSE IF flags.p_flags = RODATA_FLAGS THEN Some("RoData")
  ELSE None

RECURSIVE ReadSegments(_, _, _, _)
RECURSIVE ReadSegment(_, _, _, _, _)
\* The loop over file.segments() from segment i on, acc the segments pushed.
ReadSegments(segs, i, acc, checks) ==
  IF i > Len(segs) THEN Ok(acc)
  ELSE ReadSegment(segs, i, acc, checks, SegmentTypeOf(segs[i].flags))

\* The body of the loop for segment i, ty the outcome of the match on its flags.
ReadSegment(segs, i, acc, checks, ty) ==
  IF ~ty.some THEN ReadSegments(segs, i + 1, acc, checks)
  ELSE IF segs[i].data.tag # "Ok" THEN Err(<<"segment data">>)
  ELSE AndThen(u64_sub(segs[i].size, segs[i].data.val, checks),
         LAMBDA padding:
           ReadSegments(segs, i + 1,
             Append(acc, [ty |-> ty.val, file_size |-> segs[i].data.val,
                          zero_padding |-> padding]),
             checks))

\* A faulty reservation: the size of the section whatever it is.
SizeAlways(size) == Some(size)

\* `if size > 0 { Some(size) } else { None }`.
SizeIfPositive(size) == IF size # <<>> THEN Some(size) ELSE None

RECURSIVE ReadSections(_, _, _)
\* The loop over file.sections() from section i on.
ReadSections(secs, i, info) ==
  IF i > Len(secs) THEN info
  ELSE IF secs[i].name.tag # "Ok" THEN ReadSections(secs, i + 1, info)
  ELSE IF secs[i].name.val = ".stack"
       THEN ReadSections(secs, i + 1,
              [info EXCEPT !.stack_mem_size = SizeIfPositive(secs[i].size)])
  ELSE IF secs[i].name.val = ".heap"
       THEN ReadSections(secs, i + 1,
              [info EXCEPT !.heap_mem_size = SizeIfPositive(secs[i].size)])
  ELSE ReadSections(secs, i + 1, info)

read_elf_file(bytes, checks) ==
  IF ~bytes.parse THEN Err(<<"object::File::parse">>)
  ELSE AndThen(ReadSegments(bytes.segments, 1, <<>>, checks),
         LAMBDA segments:
           Ok(ReadSections(bytes.sections, 1,
                [segments |-> segments,
                 stack_mem_size |-> None, heap_mem_size |-> None])))

RECURSIVE SumSegments(_, _, _, _)
RECURSIVE SumSegment(_, _, _, _, _)
\* The loop of size_summary over elf.segments from segment i on.
SumSegments(segs, i, summary, checks) ==
  IF i > Len(segs) THEN Ok(summary)
  ELSE AndThen(u64_add(segs[i].file_size, segs[i].zero_padding, checks),
         LAMBDA mem_size: SumSegment(segs, i, summary, checks, mem_size))

\* The `+=` of segment i.
SumSegment(segs, i, summary, checks, mem_size) ==
  IF segs[i].ty = "Text"
  THEN AndThen(u64_add(summary.instruction_memory, mem_size, checks),
         LAMBDA sum:
           SumSegments(segs, i + 1, [summary EXCEPT !.instruction_memory = sum],
                       checks))
  ELSE AndThen(u64_add(summary.data_memory_total, mem_size, checks),
         LAMBDA sum:
           SumSegments(segs, i + 1, [summary EXCEPT !.data_memory_total = sum],
                       checks))

size_summary(binary, checks) ==
  AndThen(read_elf_file(binary, checks),
    LAMBDA elf:
      SumSegments(elf.segments, 1,
        [instruction_memory |-> <<>>, data_memory_total |-> <<>>,
         data_memory_stack |-> elf.stack_mem_size,
         data_memory_heap |-> elf.heap_mem_size],
        checks))

\* ------------------------------------------------------------------------
\* SizeSummary (main.rs:55) and LimitSummary (main.rs:102)
\* ------------------------------------------------------------------------

data_memory_dynamic(self, checks) ==
  IF self.data_memory_stack.some /\ self.data_memory_heap.some
  THEN AndThen(u64_add(self.data_memory_stack.val, self.data_memory_heap.val, checks),
         LAMBDA sum: Ok(Some(sum)))
  ELSE IF self.data_memory_stack.some THEN Ok(Some(self.data_memory_stack.val))
  ELSE IF self.data_memory_heap.some THEN Ok(Some(self.data_memory_heap.val))
  ELSE Ok(None)

\* Option::unwrap_or(0).
UnwrapOr0(opt) == IF opt.some THEN opt.val ELSE <<>>

data_memory_fixed(self, checks) ==
  AndThen(data_memory_dynamic(self, checks),
    LAMBDA dynamic: u64_sub(self.data_memory_total, UnwrapOr0(dynamic), checks))

total(self, checks) ==
  u64_add(self.instruction_memory, self.data_memory_total, checks)

total_fixed(self, checks) ==
  AndThen(data_memory_fixed(self, checks),
    LAMBDA fixed: u64_add(self.instruction_memory, fixed, checks))

\* limit.map(|limit| percent(value, limit)), value a result computed only
\* when the limit is there.
MapPercent(limit, value) ==
  IF ~limit.some THEN Ok(None)
  ELSE AndThen(value, LAMBDA v: Ok(Some(percent(v, limit.val))))

limit_summary(self, t_limit, i_limit, d_limit, checks) ==
  AndThen(MapPercent(t_limit, total(self, checks)), LAMBDA t:
  AndThen(MapPercent(t_limit, total_fixed(self, checks)), LAMBDA tf:
  AndThen(MapPercent(i_limit, Ok(self.instruction_memory)), LAMBDA i:
  AndThen(MapPercent(d_limit, Ok(self.data_memory_total)), LAMBDA d:
  AndThen(MapPercent(d_limit, data_memory_fixed(self, checks)), LAMBDA df:
    Ok([total_limit |-> t, total_fixed_limit |-> tf,
        instruction_limit |-> i, data_limit |-> d,
        data_fixed_limit |-> df]))))))

OneHundred == <<100>>

\* A faulty over: x >= 100.
overAtLeast(opt) == IF opt.some THEN BigLe(OneHundred, opt.val) ELSE FALSE

\* The local fn over: opt.map(|x| x > 100).unwrap_or(false).
over(opt) == IF opt.some THEN BigLt(OneHundred, opt.val) ELSE FALSE

any_over_100_percent(self, fixed_only) ==
  IF fixed_only
  THEN over(self.total_fixed_limit)
         \/ over(self.instruction_limit)
         \/ over(self.data_fixed_limit)
  ELSE over(self.total_limit)
         \/ over(self.total_fixed_limit)
         \/ over(self.instruction_limit)
         \/ over(self.data_limit)
         \/ over(self.data_fixed_limit)

\* ------------------------------------------------------------------------
\* print_summaries (main.rs:210)
\* ------------------------------------------------------------------------

\* The lines of the else branch; dynamic is summary.data_memory_dynamic().
PrintsWithDynamic(summary, checks, dynamic) ==
  /\ dynamic.tag = "Ok"
  /\ dynamic.val.some => data_memory_fixed(summary, checks).tag = "Ok"
  /\ total(summary, checks).tag = "Ok"
  /\ dynamic.val.some => total_fixed(summary, checks).tag = "Ok"

\* Whether the lines of one summary are all printed: the sizes it formats are
\* computed on the way, and a panic in one of them ends the printing.
PrintsSummary(summary, fixed_only, checks) ==
  IF fixed_only
  THEN /\ data_memory_fixed(summary, checks).tag = "Ok"
       /\ total_fixed(summary, checks).tag = "Ok"
  ELSE PrintsWithDynamic(summary, checks, data_memory_dynamic(summary, checks))

RECURSIVE print_summaries(_, _, _, _, _)
\* The loop over the summaries from entry i on; out is what reached stdout:
\* the path of each "File:" line and whether its summary was printed whole.
print_summaries(summaries, fixed_only, checks, i, out) ==
  IF i > Len(summaries) THEN Ok(out)
  ELSE IF PrintsSummary(summaries[i].summary, fixed_only, checks)
  THEN print_summaries(summaries, fixed_only, checks, i + 1,
                       Append(out, [path |-> summaries[i].path, whole |-> TRUE]))
  ELSE [tag |-> "Panic",
        val |-> Append(out, [path |-> summaries[i].path, whole |-> FALSE]),
        err |-> <<"arithmetic overflow">>]

\* ------------------------------------------------------------------------
\* State
\* ------------------------------------------------------------------------

VARIABLES
  overflow_checks,   \* the build: whether arithmetic overflow panics
  \* main: the run of the program
  args,              \* Args: fixed_only, the three limit strings, files
  pc,                \* where main is
  total_limit,       \* Option<u64>
  instruction_limit, \* Option<u64>
  data_limit,        \* Option<u64>
  next_file,         \* the position of the loop over args.files
  reads,             \* the paths std::fs::read was called on, in order
  summaries,         \* Vec<(PathBuf, SizeSummary, LimitSummary)>
  stdout,            \* the "File:" blocks printed
  exceeds,           \* the paths printed as exceeding memory limits
  stderr,            \* the error lines printed
  any_over_limit,
  exit_status,       \* "running", "SUCCESS", "FAILURE", "usage" or "panic"
  \* calls of single functions on inputs of their own
  limit_text, parse_result,               \* parse_limit
  elf_bytes, elf_result, summary_result,  \* read_elf_file, size_summary
  size_sum, limit_args,                   \* a SizeSummary and three limits
  dynamic_result, fixed_result,           \* data_memory_dynamic, data_memory_fixed
  limits_result, over_result              \* limit_summary, any_over_100_percent

main_vars == <<args, pc, total_limit, instruction_limit, data_limit, next_file,
               reads, summaries, stdout, exceeds, stderr, any_over_limit,
               exit_status>>
parse_vars   == <<limit_text, parse_result>>
elf_vars     == <<elf_bytes, elf_result, summary_result>>
summary_vars == <<size_sum, limit_args, dynamic_result, fixed_result,
                  limits_result, over_result>>
vars == <<overflow_checks, main_vars, parse_vars, elf_vars, summary_vars>>

\* A function that has not been called yet.
Idle == [tag |-> "Idle", val |-> <<>>, err |-> <<>>]

\* ------------------------------------------------------------------------
\* Inputs
\* ------------------------------------------------------------------------

\* Bounds of the model.
MaxFiles    == 2
MaxSegments == 2
MaxSections == 2
MaxPFlags   == 7
MaxSizeSteps == 2
MaxReservationSteps == 1

\* All sequences over S of length at most n.
SeqsUpTo(S, n) == UNION {[1..k -> S] : k \in 0..n}

ElfFlags(p) == [kind |-> "Elf", p_flags |-> p]
\* SegmentFlags of a container format other than ELF.
OtherFlags  == [kind |-> "Other", p_flags |-> 0]

Segment(flags, memsize, data) == [flags |-> flags, size |-> memsize, data |-> data]
Section(name, size) == [name |-> name, size |-> Nat2Big(size)]

\* What the decoder shows of a file, and whether std::fs::read gets its bytes.
File(readable, parse, segments, sections) ==
  [readable |-> readable, parse |-> parse, segments |-> segments,
   sections |-> sections]

\* The sizes of a segment: in memory, and the bytes in the file.  The second
\* has more bytes in the file than in memory; the third has unreadable data.
SegmentSizes ==
  { [size |-> <<60>>, data |-> Ok(<<50>>)],
    [size |-> <<5>>,  data |-> Ok(<<10>>)],
    [size |-> <<7>>,  data |-> Err(<<"segment data">>)] }

SegmentFlagValues == {ElfFlags(p) : p \in 0..MaxPFlags} \cup {OtherFlags}

Segments == {Segment(f, z.size, z.data) : f \in SegmentFlagValues, z \in SegmentSizes}

\* name() of a section whose name cannot be read.
NameError == [tag |-> "Err", val |-> "", err |-> <<"section name">>]

SectionNames == {Ok(".stack"), Ok(".heap"), Ok(".Stack"), Ok(".text"), NameError}
Sections == {Section(n, z) : n \in SectionNames, z \in {0, 16, 256}}

\* The files read_elf_file and size_summary are called on: every list of
\* segments with one list of sections, every list of sections with one list of
\* segments, and a file the decoder rejects.
ElfInputs ==
  {File(TRUE, TRUE, segs, <<Section(Ok(".stack"), 16)>>) :
     segs \in SeqsUpTo(Segments, MaxSegments)}
  \cup {File(TRUE, TRUE, <<Segment(ElfFlags(DATA_FLAGS), <<60>>, Ok(<<50>>))>>, secs) :
     secs \in SeqsUpTo(Sections, MaxSections)}
  \cup {File(TRUE, FALSE, <<>>, <<>>)}

\* The files of a run of main.
UnreadableFile == File(FALSE, FALSE, <<>>, <<>>)
NotElfFile     == File(TRUE, FALSE, <<>>, <<>>)
SmallFile ==
  File(TRUE, TRUE, <<Segment(ElfFlags(TEXT_FLAGS), <<29>>, Ok(<<29>>))>>, <<>>)
BigFile ==
  File(TRUE, TRUE,
       <<Segment(ElfFlags(TEXT_FLAGS), <<100>>, Ok(<<100>>)),
         Segment(ElfFlags(DATA_FLAGS), <<60>>, Ok(<<50>>))>>,
       <<>>)
\* One segment that is readable, writable and executable, and a stack section.
StackFile ==
  File(TRUE, TRUE,
       <<Segment(ElfFlags(PF_R + PF_W + PF_X), <<60>>, Ok(<<50>>))>>,
       <<Section(Ok(".stack"), 256)>>)
\* A text segment with more bytes in the file than in memory.
InconsistentFile ==
  File(TRUE, TRUE, <<Segment(ElfFlags(TEXT_FLAGS), <<5>>, Ok(<<10>>))>>, <<>>)

MainFiles == {UnreadableFile, NotElfFile, SmallFile, BigFile, StackFile,
              InconsistentFile}

\* Limit strings.
\* 2^54 KiB = 2^64 bytes.
StrTwoTo54  == <<"1", "8", "0", "1", "4", "3", "9", "8", "5", "0", "9", "4", "8",
                 "1", "9", "8", "4">>
StrOverflow == StrTwoTo54 \o <<"k">>

LimitStrings(t, i, d) ==
  [total_mem_limit |-> t, instruction_mem_limit |-> i, data_mem_limit |-> d]

MainLimits ==
  { LimitStrings(None, None, None),
    LimitStrings(Some(<<"1", "0", "0">>), None, None),
    LimitStrings(None, Some(<<"1", "k">>), Some(<<"1", "0", "0">>)),
    LimitStrings(Some(<<"a", "b", "c">>), None, None),
    LimitStrings(Some(<<"1", "0", "0">>), Some(<<"1", "0", "0">>), Some(<<"a", "b", "c">>)),
    LimitStrings(None, Some(<<"1", "2", "x">>), None),
    LimitStrings(Some(StrOverflow), None, Some(<<"a", "b", "c">>)),
    LimitStrings(Some(StrOverflow), None, None) }

\* ------------------------------------------------------------------------
\* main (main.rs:364)
\* ------------------------------------------------------------------------

MainIdle ==
  /\ args = [fixed_only |-> FALSE, limits |-> LimitStrings(None, None, None),
             files |-> <<>>]
  /\ pc = "idle"
  /\ total_limit = None /\ instruction_limit = None /\ data_limit = None
  /\ next_file = 1
  /\ reads = <<>> /\ summaries = <<>> /\ stdout = <<>> /\ exceeds = <<>>
  /\ stderr = <<>>
  /\ any_over_limit = FALSE
  /\ exit_status = "running"

ParseIdle == limit_text = <<>> /\ parse_result = Idle

ElfIdle ==
  /\ elf_bytes = File(TRUE, FALSE, <<>>, <<>>)
  /\ elf_result = Idle /\ summary_result = Idle

SummaryIdle ==
  /\ size_sum = [instruction_memory |-> <<>>, data_memory_total |-> <<>>,
                 data_memory_stack |-> None, data_memory_heap |-> None]
  /\ limit_args = [total |-> None, instruction |-> None, data |-> None]
  /\ dynamic_result = Idle /\ fixed_result = Idle
  /\ limits_result = Idle /\ over_result = Idle

\* After Args::parse(): the command line is any of the model's.
Init ==
  /\ overflow_checks \in BOOLEAN
  /\ args \in [fixed_only : BOOLEAN, limits : MainLimits,
               files : SeqsUpTo(MainFiles, MaxFiles)]
  /\ pc = "total_limit"
  /\ total_limit = None /\ instruction_limit = None /\ data_limit = None
  /\ next_file = 1
  /\ reads = <<>> /\ summaries = <<>> /\ stdout = <<>> /\ exceeds = <<>>
  /\ stderr = <<>>
  /\ any_over_limit = FALSE
  /\ exit_status = "running"
  /\ ParseIdle /\ ElfIdle /\ SummaryIdle

\* The match on parse_limit(&limit): the limit it yields and how the run goes
\* on.  cmd.error(..).exit() ends the process.
LimitMatch(flag, r) ==
  IF r.tag = "Ok"
  THEN [limit |-> Some(r.val), status |-> "running", line |-> <<>>]
  ELSE IF r.tag = "Err"
  THEN [limit |-> None, status |-> "usage",
        line |-> <<[what |-> flag \o " value validation error", of |-> 0]>>]
  ELSE [limit |-> None, status |-> "panic",
        line |-> <<[what |-> "panicked", of |-> 0]>>]

\* One of the three `if let Some(limit) = args.*_mem_limit` blocks.
LimitArg(flag, arg) ==
  IF ~arg.some THEN [limit |-> None, status |-> "running", line |-> <<>>]
  ELSE LimitMatch(flag, parse_limit(arg.val, overflow_checks))

\* What a limit block leaves behind besides its limit; then the position after it.
LimitBlock(r, then) ==
  /\ exit_status' = r.status
  /\ stderr' = stderr \o r.line
  /\ pc' = IF r.status = "running" THEN then ELSE "exited"

TotalLimitBlock(r) == total_limit' = r.limit /\ LimitBlock(r, "instruction_limit")

ParseTotalLimit ==
  /\ pc = "total_limit"
  /\ TotalLimitBlock(LimitArg("--total-mem-limit", args.limits.total_mem_limit))
  /\ UNCHANGED <<overflow_checks, args, instruction_limit, data_limit, next_file,
                 reads, summaries, stdout, exceeds, any_over_limit,
                 parse_vars, elf_vars, summary_vars>>

InstructionLimitBlock(r) == instruction_limit' = r.limit /\ LimitBlock(r, "data_limit")

ParseInstructionLimit ==
  /\ pc = "instruction_limit"
  /\ InstructionLimitBlock(LimitArg("--instruction-mem-limit",
                                    args.limits.instruction_mem_limit))
  /\ UNCHANGED <<overflow_checks, args, total_limit, data_limit, next_file,
                 reads, summaries, stdout, exceeds, any_over_limit,
                 parse_vars, elf_vars, summary_vars>>

DataLimitBlock(r) == data_limit' = r.limit /\ LimitBlock(r, "files")

ParseDataLimit ==
  /\ pc = "data_limit"
  /\ DataLimitBlock(LimitArg("--data-mem-limit", args.limits.data_mem_limit))
  /\ UNCHANGED <<overflow_checks, args, total_limit, instruction_limit, next_file,
                 reads, summaries, stdout, exceeds, any_over_limit,
                 parse_vars, elf_vars, summary_vars>>

\* One pass of `for path in &args.files`; a path is the file's position.
\* What the pass does to the file at `path`: "unreadable", "error" (size_summary
\* returned Err), "panic", or "pushed" with the entry for summaries.
Pass(what, entry) == [what |-> what, entry |-> entry]

\* summaries.push((path.clone(), summary, limits)), when limit_summary returns.
PushSummary(path, summary, limits) ==
  IF limits.tag = "Panic" THEN Pass("panic", <<>>)
  ELSE Pass("pushed", <<[path |-> path, summary |-> summary, limits |-> limits.val]>>)

\* The match on size_summary(&contents), and limit_summary.
SummaryMatch(path, summary) ==
  IF summary.tag = "Err" THEN Pass("error", <<>>)
  ELSE IF summary.tag = "Panic" THEN Pass("panic", <<>>)
  ELSE PushSummary(path, summary.val,
         limit_summary(summary.val, total_limit, instruction_limit, data_limit,
                       overflow_checks))

ProcessedFile(path) ==
  IF ~args.files[path].readable THEN Pass("unreadable", <<>>)
  ELSE SummaryMatch(path, size_summary(args.files[path], overflow_checks))

\* The state after a pass r over the file at next_file.
FilePass(r) ==
  /\ reads' = Append(reads, next_file)
  /\ summaries' = summaries \o r.entry
  /\ stderr' = stderr \o
       ( IF r.what = "unreadable"
           THEN <<[what |-> "Could not read file", of |-> next_file]>>
         ELSE IF r.what = "error"
           THEN <<[what |-> "Error reading ELF binary", of |-> next_file]>>
         ELSE IF r.what = "panic"
           THEN <<[what |-> "panicked", of |-> next_file]>>
         ELSE <<>> )
  /\ pc' = IF r.what = "panic" THEN "exited" ELSE "files"
  /\ exit_status' = IF r.what = "panic" THEN "panic" ELSE "running"
  /\ next_file' = IF r.what = "panic" THEN next_file ELSE next_file + 1

ProcessFile ==
  /\ pc = "files"
  /\ next_file <= Len(args.files)
  /\ FilePass(ProcessedFile(next_file))
  /\ UNCHANGED <<overflow_checks, args, total_limit, instruction_limit,
                 data_limit, stdout, exceeds, any_over_limit,
                 parse_vars, elf_vars, summary_vars>>

\* The state after print_summaries returned or panicked with r.
Printed(r) ==
  /\ stdout' = r.val
  /\ pc' = IF r.tag = "Ok" THEN "check" ELSE "exited"
  /\ exit_status' = IF r.tag = "Ok" THEN "running" ELSE "panic"
  /\ stderr' = IF r.tag = "Ok" THEN stderr
               ELSE Append(stderr, [what |-> "panicked", of |-> 0])

\* print_summaries(summaries.as_slice(), args.fixed_only), after the loop.
PrintSummaries ==
  /\ pc = "files"
  /\ next_file > Len(args.files)
  /\ Printed(print_summaries(summaries, args.fixed_only, overflow_checks, 1, <<>>))
  /\ UNCHANGED <<overflow_checks, args, total_limit, instruction_limit,
                 data_limit, next_file, reads, summaries, exceeds,
                 any_over_limit, parse_vars, elf_vars, summary_vars>>

\* The paths of the sequence of entries.
PathsOf(entries) == [i \in 1..Len(entries) |-> entries[i].path]

\* The paths of the entries of summaries that are over a limit, in order.
OverLimit(fixed_only) ==
  PathsOf(SelectSeq(summaries,
            LAMBDA entry : any_over_100_percent(entry.limits, fixed_only)))

\* The loop that sets any_over_limit, and the exit code main returns.
CheckLimits ==
  /\ pc = "check"
  /\ exceeds' = OverLimit(args.fixed_only)
  /\ any_over_limit' = (exceeds' # <<>>)
  /\ exit_status' = IF any_over_limit' THEN "FAILURE" ELSE "SUCCESS"
  /\ pc' = "exited"
  /\ UNCHANGED <<overflow_checks, args, total_limit, instruction_limit,
                 data_limit, next_file, reads, summaries, stdout, stderr,
                 parse_vars, elf_vars, summary_vars>>

Next ==
  \/ ParseTotalLimit
  \/ ParseInstructionLimit
  \/ ParseDataLimit
  \/ ProcessFile
  \/ PrintSummaries
  \/ CheckLimits

Spec == Init /\ [][Next]_vars

\* ------------------------------------------------------------------------
\* parse_limit called on a text of its own
\* ------------------------------------------------------------------------

\* The numeric parts of the texts: literals, the empty one, signed ones, ones
\* with a separator or a white space inside, and digits outside ASCII.
Numerals ==
  { <<>>, <<"0">>, <<"5">>, <<"5", "1", "2">>, <<"0", "0", "7">>,
    <<"+", "5">>, <<"-", "5">>, <<"1", "_", "0">>, <<"1", " ", "0">>,
    <<"1", ".", "5">>, <<"U+0663">>, <<"U+00BD">>,
    StrTwoTo54,
    \* the largest u64, and 2^64
    <<"1", "8", "4", "4", "6", "7", "4", "4", "0", "7", "3", "7", "0", "9", "5",
      "5", "1", "6", "1", "5">>,
    <<"1", "8", "4", "4", "6", "7", "4", "4", "0", "7", "3", "7", "0", "9", "5",
      "5", "1", "6", "1", "6">> }

\* The ends of the texts: every suffix of the chain in lower case, some in
\* upper and in mixed case, none, and ends that are no unit.
SuffixTexts ==
  {UnitSuffixes[i].suffix : i \in 1..Len(UnitSuffixes)}
  \cup { <<>>, <<"K">>, <<"K", "B">>, <<"K", "i", "B">>, <<"M", "i", "B">>,
         <<"G", "i", "B">>, <<"T", "i", "B">>, <<"G", "b">>, <<"t", "B">>,
         <<"x">>, <<"k", "i">>, <<"b", "k">>, <<"p", "b">> }

\* A text: white space or none, a number, a separator or none, an end, white
\* space or none.
LimitTexts ==
  {lead \o num \o sep \o suffix \o trail :
     lead \in {<<>>, <<" ">>}, num \in Numerals,
     sep \in {<<>>, <<" ">>, <<"_">>}, suffix \in SuffixTexts,
     trail \in {<<>>, <<" ">>}}

InitParse ==
  /\ overflow_checks \in BOOLEAN
  /\ MainIdle /\ ElfIdle /\ SummaryIdle
  /\ limit_text \in LimitTexts
  /\ parse_result = Idle

ParseLimit ==
  /\ parse_result = Idle
  /\ parse_result' = parse_limit(limit_text, overflow_checks)
  /\ UNCHANGED <<overflow_checks, main_vars, limit_text, elf_vars, summary_vars>>

NextParse == ParseLimit

SpecParse == InitParse /\ [][NextParse]_vars

\* ------------------------------------------------------------------------
\* read_elf_file and size_summary called on a file of their own
\* ------------------------------------------------------------------------

InitElf ==
  /\ overflow_checks \in BOOLEAN
  /\ MainIdle /\ ParseIdle /\ SummaryIdle
  /\ elf_bytes \in ElfInputs
  /\ elf_result = Idle /\ summary_result = Idle

ReadElfFile ==
  /\ elf_result = Idle
  /\ elf_result' = read_elf_file(elf_bytes, overflow_checks)
  /\ UNCHANGED <<overflow_checks, main_vars, parse_vars, elf_bytes,
                 summary_result, summary_vars>>

SizeSummary ==
  /\ elf_result # Idle
  /\ summary_result = Idle
  /\ summary_result' = size_summary(elf_bytes, overflow_checks)
  /\ UNCHANGED <<overflow_checks, main_vars, parse_vars, elf_bytes, elf_result,
                 summary_vars>>

NextElf ==
  \/ ReadElfFile
  \/ SizeSummary

SpecElf == InitElf /\ [][NextElf]_vars

\* ------------------------------------------------------------------------
\* The methods of SizeSummary and LimitSummary called on values of their own
\* ------------------------------------------------------------------------

\* The sizes are multiples of one step; so are the limits' 29, where 29 of 100
\* is a quotient f64 cannot hold exactly.
SizeStep == <<29>>

Sizes == {BigMulSmall(SizeStep, k) : k \in 0..MaxSizeSteps}
Reservations ==
  {None} \cup {Some(BigMulSmall(SizeStep, k)) : k \in 1..MaxReservationSteps}

SizeSummaries ==
  [instruction_memory : Sizes, data_memory_total : Sizes,
   data_memory_stack : Reservations, data_memory_heap : Reservations]

Limits(t, i, d) == [total |-> t, instruction |-> i, data |-> d]

LimitTriples ==
  { Limits(None, None, None),
    Limits(Some(<<29>>), None, None),
    Limits(None, None, Some(<<29>>)),
    Limits(Some(<<58>>), Some(<<100>>), Some(<<29>>)) }

InitSummary ==
  /\ overflow_checks \in BOOLEAN
  /\ MainIdle /\ ParseIdle /\ ElfIdle
  /\ size_sum \in SizeSummaries
  /\ limit_args \in LimitTriples
  /\ dynamic_result = Idle /\ fixed_result = Idle
  /\ limits_result = Idle /\ over_result = Idle

DataMemoryDynamic ==
  /\ dynamic_result = Idle
  /\ dynamic_result' = data_memory_dynamic(size_sum, overflow_checks)
  /\ UNCHANGED <<overflow_checks, main_vars, parse_vars, elf_vars, size_sum,
                 limit_args, fixed_result, limits_result, over_result>>

DataMemoryFixed ==
  /\ dynamic_result # Idle
  /\ fixed_result = Idle
  /\ fixed_result' = data_memory_fixed(size_sum, overflow_checks)
  /\ UNCHANGED <<overflow_checks, main_vars, parse_vars, elf_vars, size_sum,
                 limit_args, dynamic_result, limits_result, over_result>>

LimitSummary ==
  /\ fixed_result # Idle
  /\ limits_result = Idle
  /\ limits_result' = limit_summary(size_sum, limit_args.total,
                                    limit_args.instruction, limit_args.data,
                                    overflow_checks)
  /\ UNCHANGED <<overflow_checks, main_vars, parse_vars, elf_vars, size_sum,
                 limit_args, dynamic_result, fixed_result, over_result>>

\* any_over_100_percent with fixed_only and without.
AnyOver100Percent ==
  /\ limits_result.tag = "Ok"
  /\ over_result = Idle
  /\ over_result' = [tag |-> "Ok",
                     fixed |-> any_over_100_percent(limits_result.val, TRUE),
                     all |-> any_over_100_percent(limits_result.val, FALSE)]
  /\ UNCHANGED <<overflow_checks, main_vars, parse_vars, elf_vars, size_sum,
                 limit_args, dynamic_result, fixed_result, limits_result>>

NextSummary ==
  \/ DataMemoryDynamic
  \/ DataMemoryFixed
  \/ LimitSummary
  \/ AnyOver100Percent

SpecSummary == InitSummary /\ [][NextSummary]_vars

\* ------------------------------------------------------------------------
\* Properties of read_elf_file and size_summary (SpecElf)
\* ------------------------------------------------------------------------

\* Whether bit is set in the flags p.
HasFlag(p, bit) == (p \div bit) % 2 = 1

\* The permission flags of seg are exactly the bits S.
OnlyFlags(seg, S) ==
  /\ seg.flags.kind = "Elf"
  /\ \A bit \in {PF_X, PF_W, PF_R} : HasFlag(seg.flags.p_flags, bit) <=> bit \in S
  /\ seg.flags.p_flags \div (2 * PF_R) = 0

IsInstructions(seg) == OnlyFlags(seg, {PF_X, PF_R})
IsData(seg) == OnlyFlags(seg, {PF_R, PF_W}) \/ OnlyFlags(seg, {PF_R})
IsRecognized(seg) == IsInstructions(seg) \/ IsData(seg)

\* A recognized segment with more bytes in the file than in memory.
IsInconsistent(seg) ==
  IsRecognized(seg) /\ seg.data.tag = "Ok" /\ BigLt(seg.size, seg.data.val)

\* A segment that is dropped, or one whose padding is not negative.
IsSound(seg) ==
  IsRecognized(seg) => seg.data.tag = "Ok" /\ BigLe(seg.data.val, seg.size)

\* The recognized segments of the file, in order.
RecognizedSegments == SelectSeq(elf_bytes.segments, IsRecognized)

\* C1: read_elf_file records zero_padding = memory size - file size >= 0 for
\* every recognized segment, and returns Err, never a wrapped padding and
\* never a panic, when a recognized segment has more bytes in the file than in
\* memory.
C1_PaddingNeverUnderflows ==
  elf_result # Idle =>
    /\ (\E i \in 1..Len(elf_bytes.segments) : IsInconsistent(elf_bytes.segments[i]))
         => elf_result.tag = "Err"
    /\ elf_result.tag = "Ok" =>
         /\ Len(elf_result.val.segments) = Len(RecognizedSegments)
         /\ \A j \in 1..Len(elf_result.val.segments) :
              /\ BigLe(RecognizedSegments[j].data.val, RecognizedSegments[j].size)
              /\ elf_result.val.segments[j].zero_padding
                   = BigSub(RecognizedSegments[j].size, RecognizedSegments[j].data.val)

\* A build without overflow checks returned a padding wrapped modulo 2^64.
C1_WrappedPadding ==
  /\ ~overflow_checks
  /\ elf_result.tag = "Ok"
  /\ \E j \in 1..Len(elf_result.val.segments) :
       /\ IsInconsistent(RecognizedSegments[j])
       /\ elf_result.val.segments[j].zero_padding
            = BigSub(BigAdd(RecognizedSegments[j].size, TwoTo64),
                     RecognizedSegments[j].data.val)

RECURSIVE MemorySum(_, _)
\* The sum of the memory sizes of the segments at the positions.
MemorySum(segs, positions) ==
  IF positions = {} THEN <<>>
  ELSE BigAdd(segs[MinOf(positions)].size,
              MemorySum(segs, positions \ {MinOf(positions)}))

InstructionSegments == {i \in 1..Len(elf_bytes.segments) : IsInstructions(elf_bytes.segments[i])}
DataSegments == {i \in 1..Len(elf_bytes.segments) : IsData(elf_bytes.segments[i])}

Named(secs, name) ==
  {i \in 1..Len(secs) : secs[i].name.tag = "Ok" /\ secs[i].name.val = name}

\* The size of the last of the sections at positions, when it is positive.
LastPositive(secs, positions) ==
  IF positions = {} THEN None
  ELSE IF secs[MaxOf(positions)].size = <<>> THEN None
  ELSE Some(secs[MaxOf(positions)].size)

ReservationOf(name) == LastPositive(elf_bytes.sections, Named(elf_bytes.sections, name))

\* C10: after read_elf_file the stack (heap) reservation is Some(n) exactly
\* when the last section named ".stack" (".heap") has the size n > 0, None when
\* there is none or it has the size 0, never Some(0); size_summary carries both
\* into the summary.
C10_LastSectionWins ==
  /\ elf_result.tag = "Ok" =>
       /\ elf_result.val.stack_mem_size = ReservationOf(".stack")
       /\ elf_result.val.heap_mem_size = ReservationOf(".heap")
       /\ elf_result.val.stack_mem_size # Some(<<>>)
       /\ elf_result.val.heap_mem_size # Some(<<>>)
  /\ summary_result.tag = "Ok" =>
       /\ summary_result.val.data_memory_stack = ReservationOf(".stack")
       /\ summary_result.val.data_memory_heap = ReservationOf(".heap")

\* Two sections named ".stack" of different positive sizes: the second one's
\* size is the reservation.
C10_TwoStackSections ==
  /\ elf_result.tag = "Ok" /\ summary_result.tag = "Ok"
  /\ Named(elf_bytes.sections, ".stack") = {1, 2}
  /\ elf_bytes.sections[1].size # elf_bytes.sections[2].size
  /\ elf_bytes.sections[1].size # <<>>
  /\ summary_result.val.data_memory_stack = Some(elf_bytes.sections[2].size)

\* ------------------------------------------------------------------------
\* Properties of SizeSummary and LimitSummary (SpecSummary)
\* ------------------------------------------------------------------------

\* None when both reservations are None, else the sum of the present ones.
DynamicOf(s) ==
  IF ~s.data_memory_stack.some /\ ~s.data_memory_heap.some THEN None
  ELSE Some(BigAdd(UnwrapOr0(s.data_memory_stack), UnwrapOr0(s.data_memory_heap)))

\* C3: data_memory_dynamic() is None exactly when stack and heap are None and
\* else the sum of the present ones; data_memory_fixed() is a value that is
\* not wrapped, and data_memory_fixed() + data_memory_dynamic().unwrap_or(0) =
\* data_memory_total, also for reservations larger than data_memory_total.
C3_FixedPlusDynamic ==
  /\ dynamic_result # Idle => dynamic_result = Ok(DynamicOf(size_sum))
  /\ fixed_result # Idle =>
       /\ fixed_result.tag = "Ok"
       /\ BigAdd(fixed_result.val, UnwrapOr0(DynamicOf(size_sum)))
            = size_sum.data_memory_total

\* A build without overflow checks returned a fixed part larger than the whole.
C3_WrappedFixed ==
  /\ ~overflow_checks
  /\ fixed_result.tag = "Ok"
  /\ BigLt(size_sum.data_memory_total, fixed_result.val)

\* floor(100 * v / l).
FloorPercent(v, l) == BigDivMod(BigMulSmall(v, 100), l).q

\* The percentage of a metric: None without a limit, else the floor.
PercentIsFloor(got, limit, value) ==
  IF ~limit.some THEN got = None
  ELSE IF limit.val = <<>> THEN TRUE
  ELSE got = Some(FloorPercent(value.val, limit.val))

\* C2: for every metric value v and every limit l > 0 the percentage that
\* limit_summary stores is floor(100 * v / l), for each of total, total_fixed,
\* instruction, data and data_fixed (the values as the methods compute them).
C2_PercentIsFloor ==
  limits_result.tag = "Ok" =>
    /\ PercentIsFloor(limits_result.val.total_limit, limit_args.total,
                      total(size_sum, overflow_checks))
    /\ PercentIsFloor(limits_result.val.total_fixed_limit, limit_args.total,
                      total_fixed(size_sum, overflow_checks))
    /\ PercentIsFloor(limits_result.val.instruction_limit, limit_args.instruction,
                      Ok(size_sum.instruction_memory))
    /\ PercentIsFloor(limits_result.val.data_limit, limit_args.data,
                      Ok(size_sum.data_memory_total))
    /\ PercentIsFloor(limits_result.val.data_fixed_limit, limit_args.data,
                      data_memory_fixed(size_sum, overflow_checks))

\* 29 bytes of instructions against a limit of 100 bytes: 28 per cent.
C2_TwentyNineOfHundred ==
  /\ limits_result.tag = "Ok"
  /\ size_sum.instruction_memory = <<29>>
  /\ limit_args.instruction = Some(<<100>>)
  /\ limits_result.val.instruction_limit = Some(<<28>>)

\* A percentage strictly greater than 100 (None: no limit, never over).
Exceeds(opt) == opt.some /\ opt.val \notin {Nat2Big(k) : k \in 0..100}

FiveMetrics == {"total_limit", "total_fixed_limit", "instruction_limit",
                "data_limit", "data_fixed_limit"}
FixedMetrics == {"total_fixed_limit", "instruction_limit", "data_fixed_limit"}

AnyExceeds(limits, metrics) == \E m \in metrics : Exceeds(limits[m])

\* C4 (as the code has it): any_over_100_percent is true exactly when one of
\* the metrics it looks at has a percentage strictly greater than 100, those
\* being all five metrics without fixed_only and total_fixed, instruction and
\* data_fixed with fixed_only; 100 is not over, and no limit is never over.
C4_OverByMode ==
  over_result # Idle =>
    /\ over_result.all = AnyExceeds(limits_result.val, FiveMetrics)
    /\ over_result.fixed = AnyExceeds(limits_result.val, FixedMetrics)

\* C4 (as stated): for every value of fixed_only, any_over_100_percent is true
\* exactly when one of the five metrics has a percentage strictly greater than
\* 100.
C4_OverAnyOfFive ==
  over_result # Idle =>
    /\ over_result.all = AnyExceeds(limits_result.val, FiveMetrics)
    /\ over_result.fixed = AnyExceeds(limits_result.val, FiveMetrics)

\* The total is over its limit and the file is over without fixed_only, yet
\* not over with it.
C4_OverOnlyWithoutFixedOnly ==
  /\ over_result # Idle
  /\ Exceeds(limits_result.val.total_limit)
  /\ over_result.all
  /\ ~over_result.fixed

\* ------------------------------------------------------------------------
\* Properties of parse_limit (SpecParse)
\* ------------------------------------------------------------------------

\* The number of decimal digits that s begins with.
DigitsBefore(s) ==
  Cardinality({i \in 1..Len(s) : \A j \in 1..i : IsAsciiDigit(s[j])})

UnitPart(s) == to_ascii_lowercase(SubSeq(s, DigitsBefore(s) + 1, Len(s)))

RECURSIVE DecimalValue(_, _)
\* The number that the first n digits of s write.
DecimalValue(s, n) ==
  IF n = 0 THEN <<>>
  ELSE BigAdd(BigMulSmall(DecimalValue(s, n - 1), 10), Nat2Big(DigitValue(s[n])))

RECURSIVE Power(_, _)
Power(base, n) == IF n = 0 THEN <<1>> ELSE BigMulSmall(Power(base, n - 1), base)

\* The exponent of the units that begin with a letter.
Exponent(letter) ==
  IF letter = "k" THEN 1 ELSE IF letter = "m" THEN 2
  ELSE IF letter = "g" THEN 3 ELSE 4

\* The units of the claim and their multipliers: b, and k m g t alone or
\* followed by ib (powers of 1024) or by b (powers of 1000).
IsUnit(u) ==
  \/ u = <<"b">>
  \/ /\ u # <<>>
     /\ u[1] \in {"k", "m", "g", "t"}
     /\ Tail(u) \in {<<>>, <<"b">>, <<"i", "b">>}

Multiplier(u) ==
  IF u = <<>> \/ u = <<"b">> THEN <<1>>
  ELSE Power(IF Tail(u) = <<"b">> THEN 1000 ELSE 1024, Exponent(u[1]))

\* A number directly followed by a unit or by nothing.
IsNumberWithUnit(s) ==
  /\ DigitsBefore(s) > 0
  /\ UnitPart(s) = <<>> \/ IsUnit(UnitPart(s))

ProductOf(s) ==
  BigMul(DecimalValue(s, DigitsBefore(s)), Multiplier(UnitPart(s)))

\* C7: for a number n (a u64) followed by a recognized suffix in any letter
\* case, or by none, parse_limit returns Ok(n * multiplier), the exact
\* product; a product that u64 cannot hold is not returned wrapped.
C7_ExactProduct ==
  ( /\ parse_result # Idle
    /\ IsNumberWithUnit(limit_text)
    /\ BigLt(DecimalValue(limit_text, DigitsBefore(limit_text)), TwoTo64) )
  => IF BigLt(ProductOf(limit_text), TwoTo64)
     THEN parse_result = Ok(ProductOf(limit_text))
     ELSE parse_result.tag = "Err"

\* 2^54 k, which is 2^64 bytes, parsed as 0 by a build without overflow checks.
C7_WrappedToZero ==
  /\ ~overflow_checks
  /\ limit_text = StrOverflow
  /\ parse_result = Ok(<<>>)

\* s without the white space it begins with.
TrimStart(s) ==
  SubSeq(s, Cardinality({i \in 1..Len(s) : \A j \in 1..i : IsWhitespace(s[j])}) + 1,
         Len(s))

\* The texts of the grammar: a number directly followed by a unit or by
\* nothing, white space before it allowed; without a unit, white space around
\* the number allowed.
IsLimitText(s) ==
  \/ IsNumberWithUnit(TrimStart(s))
  \/ DigitsBefore(trim(s)) > 0 /\ DigitsBefore(trim(s)) = Len(trim(s))

\* C8: parse_limit returns Err with the grammar hint for every text that is
\* not a number without separators directly followed by an optional unit: an
\* empty number, a sign, a white space or another separator inside or before
\* the unit, an unknown unit.
C8_RejectsOtherTexts ==
  (parse_result # Idle /\ ~IsLimitText(limit_text))
  => /\ parse_result.tag = "Err"
     /\ parse_result.err[1] = GrammarHint

\* "+5k" is parsed as 5120.
C8_SignAccepted ==
  /\ limit_text = <<"+", "5", "k">>
  /\ parse_result = Ok(<<0, 20>>)

\* ------------------------------------------------------------------------
\* Properties of main (Spec)
\* ------------------------------------------------------------------------

\* The three limits were parsed and the loop over the files began or ended.
LimitsParsed == reads # <<>> \/ exit_status \in {"SUCCESS", "FAILURE"}

\* A file that can be read and whose extraction has nothing to fail on.
IsProcessable(file) ==
  /\ file.readable
  /\ file.parse
  /\ \A i \in 1..Len(file.segments) : IsSound(file.segments[i])

\* The paths of the processable files, in input order.
ProcessablePaths ==
  SelectSeq([i \in 1..Len(args.files) |-> i],
            LAMBDA path : IsProcessable(args.files[path]))

\* C5: a file whose read or whose extraction fails is skipped and the batch
\* goes on: every file is processed, the report has the successfully processed
\* files in input order, and the exit status is FAILURE exactly when one of
\* them is over a limit, else SUCCESS.
C5_BatchSurvivesFailures ==
  (pc = "exited" /\ LimitsParsed) =>
    /\ exit_status \in {"SUCCESS", "FAILURE"}
    /\ reads = [i \in 1..Len(args.files) |-> i]
    /\ PathsOf(stdout) = ProcessablePaths
    /\ \A i \in 1..Len(stdout) : stdout[i].whole
    /\ exit_status = "FAILURE" <=>
         \E i \in 1..Len(summaries) :
           any_over_100_percent(summaries[i].limits, args.fixed_only)

\* A panic while the first of two files was processed: the second one is
\* never read.
C5_BatchAborted ==
  /\ pc = "exited"
  /\ exit_status = "panic"
  /\ Len(args.files) = 2
  /\ reads = <<1>>

\* A limit string that is given and that parse_limit returns Err for.
IsMalformed(arg) ==
  arg.some /\ parse_limit(arg.val, overflow_checks).tag = "Err"

AnyMalformed ==
  \/ IsMalformed(args.limits.total_mem_limit)
  \/ IsMalformed(args.limits.instruction_mem_limit)
  \/ IsMalformed(args.limits.data_mem_limit)

\* C6: when one of the three limit strings fails parse_limit, the run ends
\* with a configuration error before a file is read, extracted, summarized or
\* reported.
C6_MalformedLimitStopsRun ==
  AnyMalformed =>
    /\ reads = <<>> /\ summaries = <<>> /\ stdout = <<>>
    /\ pc \notin {"files", "check"}
    /\ pc = "exited" => exit_status = "usage"

\* The part of C6 that the code keeps: no file is processed in a run with a
\* malformed limit.
NoFileAfterMalformedLimit ==
  AnyMalformed =>
    /\ reads = <<>> /\ summaries = <<>> /\ stdout = <<>>
    /\ pc \notin {"files", "check"}

\* The run panicked in parse_limit on the total limit although the data limit
\* is malformed.
C6_PanicBeforeError ==
  /\ pc = "exited"
  /\ exit_status = "panic"
  /\ reads = <<>>
  /\ IsMalformed(args.limits.data_mem_limit)

====
